---- MODULE Spec2Model ----
\* Model of ralloc's free-memory bookkeeping core: the Block operations of
\* src/block.rs and the skip-list search of src/bk/pool.rs.
EXTENDS Integers, Sequences, FiniteSets, Bags, TLC

\* ---------------------------------------------------------------- bounds
\* Addressable bytes sit at addresses 1..MemSize (a Pointer is never null).
MemSize == 4
\* Largest number of Block values alive at once in the Block algebra.
MaxBlocks == 3
\* Alignments tried by align(): 1..MaxAlign.
MaxAlign == 3
\* Bytes managed by the Pool sit at addresses 1..PoolMem.
PoolMem == 5
\* shortcut::Level::max(): shortcut levels are 1..MaxLevel, the base chain is
\* level 0.
MaxLevel == 2

VARIABLES
    blocks,     \* bag of Block: every Block value currently in existence
    initial,    \* the Blocks the run started from (never changes)
    last,       \* record of the most recent Block operation
    fatal,      \* TRUE once a panic (assert!) has aborted the run
    nodes,      \* Pool: head sentinel and Arena slots in use -> Node
    held,       \* set of Blocks owned by the allocator front-end
    seek,       \* the Seek the most recent Pool.search returned
    plast       \* record of the most recent Pool operation

bvars == <<blocks, initial, last, fatal>>
pvars == <<nodes, held, seek, plast>>
vars == <<blocks, initial, last, fatal, nodes, held, seek, plast>>

\* ------------------------------------------------------- Block (block.rs)
\* struct Block { size, ptr }, built by from_raw_parts.
Block(p, s) == [ptr |-> p, size |-> s]

\* Block::empty(ptr)
empty(p) == [size |-> 0, ptr |-> p]

\* Block::empty_left(&self)
empty_left(self) == empty(self.ptr)

\* Block::empty_right(&self): ptr.offset(size)
empty_right(self) == [size |-> 0, ptr |-> self.ptr + self.size]

\* Block::is_empty(&self)
is_empty(self) == self.size = 0

\* A pop that forgets to leave an empty Block behind.
pop_keeps(self) == [self |-> self, ret |-> self]

\* Block::pop(&mut self): mem::replace(self, Block::empty(self.ptr.clone())).
\* .self is what is left in place, .ret the value returned.
pop(self) == [self |-> empty(self.ptr), ret |-> self]

\* An adjacency test that is off by one byte.
left_to_off_by_one(self, to) == self.size + self.ptr + 1 = to.ptr

\* Block::left_to(&self, to): self.size + ptr == to.ptr
left_to(self, to) == self.size + self.ptr = to.ptr

\* A merge that pops the right operand before testing adjacency.
merge_right_pops_first(self, block) ==
    IF left_to(self, block)
    THEN [ok |-> TRUE,
          self |-> [self EXCEPT !.size = self.size + pop(block).ret.size],
          block |-> pop(block).self]
    ELSE [ok |-> FALSE, self |-> self, block |-> pop(block).self]

\* Block::merge_right(&mut self, block: &mut Block) -> Result<(), ()>
merge_right(self, block) ==
    IF left_to(self, block)
    THEN [ok |-> TRUE,
          self |-> [self EXCEPT !.size = self.size + pop(block).ret.size],
          block |-> pop(block).self]
    ELSE [ok |-> FALSE, self |-> self, block |-> block]

\* A split whose bound check rejects pos = size.
split_strict(self, pos) ==
    IF pos < self.size
    THEN [fatal |-> FALSE,
          l |-> [size |-> pos, ptr |-> self.ptr],
          r |-> [size |-> self.size - pos, ptr |-> self.ptr + pos]]
    ELSE [fatal |-> TRUE, l |-> empty(0), r |-> empty(0)]

\* A split whose right half keeps the whole size.
split_long_right(self, pos) ==
    IF pos <= self.size
    THEN [fatal |-> FALSE,
          l |-> [size |-> pos, ptr |-> self.ptr],
          r |-> [size |-> self.size, ptr |-> self.ptr + pos]]
    ELSE [fatal |-> TRUE, l |-> empty(0), r |-> empty(0)]

\* Block::split(self, pos) -> (Block, Block); assert!(pos <= self.size) panics.
split(self, pos) ==
    IF pos <= self.size
    THEN [fatal |-> FALSE,
          l |-> [size |-> pos, ptr |-> self.ptr],
          r |-> [size |-> self.size - pos, ptr |-> self.ptr + pos]]
    ELSE [fatal |-> TRUE, l |-> empty(0), r |-> empty(0)]

\* The aligner of align(): (align - ptr % align) % align
aligner(self, a) == (a - (self.ptr % a)) % a

\* An align whose bound check lets the padding eat the whole Block.
align_loose(self, a) ==
    IF aligner(self, a) <= self.size
    THEN LET old == pop(self).ret
         IN  [ok |-> TRUE, self |-> pop(self).self,
              pre |-> [size |-> aligner(self, a), ptr |-> old.ptr],
              post |-> [size |-> old.size - aligner(self, a),
                        ptr |-> old.ptr + aligner(self, a)]]
    ELSE [ok |-> FALSE, self |-> self, pre |-> empty(0), post |-> empty(0)]

\* Block::align(&mut self, align) -> Result<(Block, Block), ()>
align(self, a) ==
    IF aligner(self, a) < self.size
    THEN LET old == pop(self).ret
         IN  [ok |-> TRUE, self |-> pop(self).self,
              pre |-> [size |-> aligner(self, a), ptr |-> old.ptr],
              post |-> [size |-> old.size - aligner(self, a),
                        ptr |-> old.ptr + aligner(self, a)]]
    ELSE [ok |-> FALSE, self |-> self, pre |-> empty(0), post |-> empty(0)]

\* ------------------------------------------------------ helpers over bags
RECURSIVE SumOver(_, _)
SumOver(B, S) ==
    IF S = {} THEN 0
    ELSE LET b == CHOOSE x \in S : TRUE
         IN  b.size * CopiesIn(b, B) + SumOver(B, S \ {b})

\* Total number of bytes owned by the Blocks of bag B.
SumSizes(B) == SumOver(B, BagToSet(B))

Overlap(a, b) ==
    /\ a.size > 0 /\ b.size > 0
    /\ a.ptr < b.ptr + b.size /\ b.ptr < a.ptr + a.size

\* No byte is owned by two Blocks of bag B.
NonOverlapping(B) ==
    /\ \A a, b \in BagToSet(B) : a # b => ~Overlap(a, b)
    /\ \A a \in BagToSet(B) : a.size > 0 => CopiesIn(a, B) = 1

One(b) == SetToBag({b})

\* Non-empty Blocks that lie inside the managed bytes.
OwnedBlocks ==
    {b \in [ptr : 1..MemSize, size : 1..MemSize] : b.ptr + b.size <= MemSize + 1}

NoOp == [op |-> "none", arg |-> 0, ok |-> FALSE,
         a |-> empty(0), b |-> empty(0), a2 |-> empty(0), b2 |-> empty(0),
         r1 |-> empty(0), r2 |-> empty(0), orig |-> empty(0), rt |-> FALSE]

\* ------------------------------------------------------- Block algebra
\* The run starts from one or two non-overlapping non-empty Blocks.
BlockInit ==
    /\ blocks \in {SetToBag(S) : S \in {T \in SUBSET OwnedBlocks :
                       /\ Cardinality(T) \in 1..2
                       /\ \A a, b \in T : a # b => ~Overlap(a, b)}}
    /\ initial = blocks
    /\ last = NoOp
    /\ fatal = FALSE

\* let (r1, r2) = a.split(pos): a is consumed.
SplitStep ==
    \E a \in BagToSet(blocks), pos \in 0..(MemSize + 1) :
        LET r == split(a, pos) IN
        /\ ~fatal
        /\ BagCardinality(blocks) < MaxBlocks
        /\ last' = [NoOp EXCEPT !.op = "split", !.arg = pos, !.ok = ~r.fatal,
                                !.a = a, !.r1 = r.l, !.r2 = r.r]
        /\ fatal' = r.fatal
        /\ blocks' = IF r.fatal THEN blocks
                     ELSE (blocks (-) One(a)) (+) One(r.l) (+) One(r.r)
        /\ UNCHANGED <<initial, pvars>>

\* a.merge_right(&mut b) on two distinct Block values; .rt tells that a and b
\* are the two halves the previous step's split returned, .orig the Block
\* that split consumed.
MergeRightStep ==
    \E a, b \in BagToSet(blocks) :
        LET r  == merge_right(a, b)
            rt == last.op = "split" /\ last.ok /\ a = last.r1 /\ b = last.r2
        IN
        /\ ~fatal
        /\ a = b => CopiesIn(a, blocks) >= 2
        /\ last' = [NoOp EXCEPT !.op = "merge_right", !.ok = r.ok,
                                !.a = a, !.b = b,
                                !.a2 = r.self, !.b2 = r.block,
                                !.rt = rt,
                                !.orig = IF rt THEN last.a ELSE empty(0)]
        /\ blocks' = (blocks (-) One(a) (-) One(b))
                        (+) One(r.self) (+) One(r.block)
        /\ UNCHANGED <<initial, fatal, pvars>>

\* let (r1, r2) = a.align(al); a itself stays behind as a2.
AlignStep ==
    \E a \in BagToSet(blocks), al \in 1..MaxAlign :
        LET r == align(a, al) IN
        /\ ~fatal
        /\ r.ok => BagCardinality(blocks) + 2 <= MaxBlocks
        /\ last' = [NoOp EXCEPT !.op = "align", !.arg = al, !.ok = r.ok,
                                !.a = a, !.a2 = r.self,
                                !.r1 = r.pre, !.r2 = r.post]
        /\ blocks' = IF r.ok
                     THEN (blocks (-) One(a)) (+) One(r.self)
                              (+) One(r.pre) (+) One(r.post)
                     ELSE (blocks (-) One(a)) (+) One(r.self)
        /\ UNCHANGED <<initial, fatal, pvars>>

\* let r1 = a.pop(); a itself stays behind as a2.
PopStep ==
    \E a \in BagToSet(blocks) :
        LET r == pop(a) IN
        /\ ~fatal
        /\ BagCardinality(blocks) < MaxBlocks
        /\ last' = [NoOp EXCEPT !.op = "pop", !.ok = TRUE,
                                !.a = a, !.a2 = r.self, !.r1 = r.ret]
        /\ blocks' = (blocks (-) One(a)) (+) One(r.self) (+) One(r.ret)
        /\ UNCHANGED <<initial, fatal, pvars>>

\* let r1 = a.empty_left()
EmptyLeftStep ==
    \E a \in BagToSet(blocks) :
        /\ ~fatal
        /\ BagCardinality(blocks) < MaxBlocks
        /\ last' = [NoOp EXCEPT !.op = "empty_left", !.ok = TRUE,
                                !.a = a, !.a2 = a, !.r1 = empty_left(a)]
        /\ blocks' = blocks (+) One(empty_left(a))
        /\ UNCHANGED <<initial, fatal, pvars>>

\* let r1 = a.empty_right()
EmptyRightStep ==
    \E a \in BagToSet(blocks) :
        /\ ~fatal
        /\ BagCardinality(blocks) < MaxBlocks
        /\ last' = [NoOp EXCEPT !.op = "empty_right", !.ok = TRUE,
                                !.a = a, !.a2 = a, !.r1 = empty_right(a)]
        /\ blocks' = blocks (+) One(empty_right(a))
        /\ UNCHANGED <<initial, fatal, pvars>>

\* impl Drop for Block: only an empty Block may go out of scope.
DropStep ==
    \E a \in BagToSet(blocks) :
        /\ ~fatal
        /\ is_empty(a)
        /\ last' = [NoOp EXCEPT !.op = "drop", !.ok = TRUE, !.a = a]
        /\ blocks' = blocks (-) One(a)
        /\ UNCHANGED <<initial, fatal, pvars>>

BlockNext ==
    \/ SplitStep
    \/ MergeRightStep
    \/ AlignStep
    \/ PopStep
    \/ EmptyLeftStep
    \/ EmptyRightStep
    \/ DropStep

\* ------------------------------------------------------- Pool (bk/pool.rs)
\* Pool.head: the sentinel Node's place in the node table.
HEAD == 0
\* An absent forward link / an iterator's None.
NIL == -1

\* Arena slots that can hold a Node.
ArenaSlots == 1..PoolMem

NoLinks == [l \in 0..MaxLevel |-> NIL]

\* The sentinel: an empty Block below every address, present at every level.
HeadNode == [used |-> TRUE, block |-> empty(0), level |-> MaxLevel,
             next |-> NoLinks]

\* An Arena slot that holds no Node.
FreeSlot == [used |-> FALSE, block |-> empty(0), level |-> 0, next |-> NoLinks]

\* A comparison that lets an equal address through.
less_or_equal(x, block) == x.ptr <= block.ptr

\* impl Ord / PartialOrd for Block: `x < block` compares the addresses.
less(x, block) == x.ptr < block.ptr

\* The cursor over level lv started at node n: n itself, then the forward
\* links of that level (level 0 is the base chain, Node::iter).
RECURSIVE Chain(_, _, _)
Chain(ns, n, lv) ==
    IF n = NIL THEN <<>> ELSE <<n>> \o Chain(ns, ns[n].next[lv], lv)

\* iter.take_while(|x| x < block).last(): the last node of the longest prefix
\* of seq whose Blocks are all below block; acc (NIL = None) when it is empty.
RECURSIVE take_while_last(_, _, _, _)
take_while_last(ns, seq, block, acc) ==
    IF seq = <<>> THEN acc
    ELSE IF less(ns[Head(seq)].block, block)
         THEN take_while_last(ns, Tail(seq), block, Head(seq))
         ELSE acc

\* A search loop that records the node a walk started from instead of the
\* node it reached.
RECURSIVE search_levels_records_start(_, _, _, _, _)
search_levels_records_start(ns, block, cur, lv, sk) ==
    LET shortcut_taken == take_while_last(ns, Chain(ns, cur, lv), block, NIL)
    IN  IF shortcut_taken = NIL
        THEN [cur |-> cur, back_look |-> sk.back_look, set |-> sk.set]
        ELSE LET sk2 == [cur |-> shortcut_taken,
                         back_look |-> [sk.back_look EXCEPT ![lv] = cur],
                         set |-> sk.set \cup {lv}]
             IN  IF lv = 1 THEN sk2
                 ELSE search_levels_records_start(ns, block, shortcut_taken,
                                                  lv - 1, sk2)

\* The while-let loop of Pool::search from the cursor (cur, lv): walk the level
\* while below the needle, record the node reached in back_look[lv], step down
\* at that node, stop after level 1 or as soon as a walk yields None.
\* .set holds the levels whose back_look cell has been written.
RECURSIVE search_levels(_, _, _, _, _)
search_levels(ns, block, cur, lv, sk) ==
    LET shortcut_taken == take_while_last(ns, Chain(ns, cur, lv), block, NIL)
    IN  IF shortcut_taken = NIL
        THEN [cur |-> cur, back_look |-> sk.back_look, set |-> sk.set]
        ELSE LET sk2 == [cur |-> shortcut_taken,
                         back_look |-> [sk.back_look EXCEPT ![lv] = shortcut_taken],
                         set |-> sk.set \cup {lv}]
             IN  IF lv = 1 THEN sk2
                 ELSE search_levels(ns, block, shortcut_taken, lv - 1, sk2)

\* A search that takes the level-1 position as the base predecessor.
search_skips_base(ns, block) ==
    LET w == search_levels(ns, block, HEAD, MaxLevel,
                 [cur |-> HEAD, back_look |-> [l \in 1..MaxLevel |-> NIL],
                  set |-> {}])
    IN  [node |-> w.cur, back_look |-> w.back_look, set |-> w.set,
         fatal |-> FALSE]

\* Pool::search(&mut self, block) -> Seek. seek starts uninitialized; the
\* last line's unwrap() panics (.fatal) when the base walk yields None.
search(ns, block) ==
    LET w == search_levels(ns, block, HEAD, MaxLevel,
                 [cur |-> HEAD, back_look |-> [l \in 1..MaxLevel |-> NIL],
                  set |-> {}])
        node == take_while_last(ns, Chain(ns, w.cur, 0), block, NIL)
    IN  [node |-> node, back_look |-> w.back_look, set |-> w.set,
         fatal |-> node = NIL]

\* The predecessor a Seek names for level l (the base predecessor for 0).
SeekPred(sk, l) == IF l = 0 THEN sk.node ELSE sk.back_look[l]

\* Unlink node n from every level it is on, through the Seek's predecessors,
\* and give its slot back to the Arena.
unlink(ns, n, sk) ==
    [m \in DOMAIN ns |->
        IF m = n THEN FreeSlot
        ELSE [ns[m] EXCEPT !.next =
                 [l \in 0..MaxLevel |->
                     IF l <= ns[n].level /\ SeekPred(sk, l) = m
                     THEN ns[n].next[l] ELSE ns[m].next[l]]]]

\* Splice a new Node of level lvl holding block into slot n, after the Seek's
\* predecessors.
splice(ns, n, block, lvl, sk) ==
    [m \in DOMAIN ns |->
        IF m = n
        THEN [used |-> TRUE, block |-> block, level |-> lvl,
              next |-> [l \in 0..MaxLevel |->
                           IF l <= lvl THEN ns[SeekPred(sk, l)].next[l]
                           ELSE NIL]]
        ELSE [ns[m] EXCEPT !.next =
                 [l \in 0..MaxLevel |->
                     IF l <= lvl /\ SeekPred(sk, l) = m
                     THEN n ELSE ns[m].next[l]]]]

\* Pool.insert(block): search, try to merge into the base predecessor and
\* with the Node following it, else splice a new Node of level lvl. The Arena
\* hands out the slot numbered like the Block's address, which is free
\* because every Node in use owns the byte its slot is numbered after.
insert(ns, block, lvl) ==
    LET sk   == search(ns, block)
        pred == sk.node
        succ == ns[pred].next[0]
        m1   == merge_right(ns[pred].block, block)
        m2   == merge_right(m1.self, ns[succ].block)
        m3   == merge_right(block, ns[succ].block)
        slot == block.ptr
    IN  IF sk.fatal THEN [fatal |-> TRUE, merged |-> FALSE, nodes |-> ns]
        ELSE IF m1.ok
        THEN IF succ # NIL /\ m2.ok
             THEN [fatal |-> FALSE, merged |-> TRUE,
                   nodes |-> unlink([ns EXCEPT ![pred].block = m2.self],
                                    succ, sk)]
             ELSE [fatal |-> FALSE, merged |-> TRUE,
                   nodes |-> [ns EXCEPT ![pred].block = m1.self]]
        ELSE IF succ # NIL /\ m3.ok
             THEN [fatal |-> FALSE, merged |-> TRUE,
                   nodes |-> [ns EXCEPT ![succ].block = m3.self]]
             ELSE [fatal |-> FALSE, merged |-> FALSE,
                   nodes |-> splice(ns, slot, block, lvl, sk)]

\* Does the Block of node n satisfy (min_size, al) once aligned?
Fits(ns, n, min_size, al) ==
    LET r == align(ns[n].block, al) IN r.ok /\ r.post.size >= min_size

\* Address-ordered first fit: the first node of the base chain that fits,
\* NIL when none does.
FirstFit(ns, min_size, al) ==
    LET c == Chain(ns, ns[HEAD].next[0], 0)
        I == {i \in DOMAIN c : Fits(ns, c[i], min_size, al)}
    IN  IF I = {} THEN NIL
        ELSE c[CHOOSE i \in I : \A j \in I : i <= j]

\* Pool.remove(min_size, al): search for the first fitting Node, unlink it
\* and hand its Block out; .ok = FALSE when nothing fits.
remove(ns, min_size, al) ==
    LET n  == FirstFit(ns, min_size, al)
        sk == search(ns, ns[n].block)
    IN  IF n = NIL
        THEN [ok |-> FALSE, fatal |-> FALSE, nodes |-> ns, block |-> empty(0)]
        ELSE IF sk.fatal
        THEN [ok |-> FALSE, fatal |-> TRUE, nodes |-> ns, block |-> empty(0)]
        ELSE [ok |-> TRUE, fatal |-> FALSE, nodes |-> unlink(ns, n, sk),
              block |-> ns[n].block]

NoSeek == [valid |-> FALSE, target |-> empty(0), node |-> NIL,
           back_look |-> [l \in 1..MaxLevel |-> NIL], set |-> {},
           fatal |-> FALSE]

NoPoolOp == [op |-> "none", ok |-> FALSE, merged |-> FALSE]

\* An empty Pool; the front-end holds the memory carved from the OS.
PoolInit ==
    /\ nodes = [m \in {HEAD} \cup ArenaSlots |->
                   IF m = HEAD THEN HeadNode ELSE FreeSlot]
    /\ held = {Block(1, PoolMem)}
    /\ seek = NoSeek
    /\ plast = NoPoolOp

\* The front-end splits a Block it holds (to keep one part, free the other).
CallerSplitStep ==
    /\ ~seek.valid
    /\ \E b \in held, pos \in 1..(PoolMem - 1) :
          /\ pos < b.size
          /\ held' = (held \ {b}) \cup {split(b, pos).l, split(b, pos).r}
    /\ UNCHANGED <<nodes, seek, plast, bvars>>

\* Pool.insert(block) of a Block the front-end frees.
InsertStep ==
    /\ ~seek.valid
    /\ \E block \in held, lvl \in 0..MaxLevel :
          \E r \in {insert(nodes, block, lvl)} :
             /\ ~r.fatal
             /\ nodes' = r.nodes
             /\ held' = held \ {block}
             /\ plast' = [op |-> "insert", ok |-> TRUE, merged |-> r.merged]
    /\ UNCHANGED <<seek, bvars>>

\* Pool.remove(min_size, al): extract the first fitting Block, if any.
RemoveStep ==
    /\ ~seek.valid
    /\ \E min_size \in 1..PoolMem, al \in 1..MaxAlign :
          \E r \in {remove(nodes, min_size, al)} :
             /\ ~r.fatal
             /\ nodes' = r.nodes
             /\ held' = IF r.ok THEN held \cup {r.block} ELSE held
             /\ plast' = [op |-> "remove", ok |-> r.ok, merged |-> FALSE]
    /\ UNCHANGED <<seek, bvars>>

\* Pool.search(target) for a target at any address.
SearchStep ==
    /\ ~seek.valid
    /\ \E p \in 1..(PoolMem + 1) :
          \E sk \in {search(nodes, empty(p))} :
             seek' = [valid |-> TRUE, target |-> empty(p), node |-> sk.node,
                      back_look |-> sk.back_look, set |-> sk.set,
                      fatal |-> sk.fatal]
    /\ UNCHANGED <<nodes, held, plast, bvars>>

\* The Seek goes out of scope before the Pool is used again.
SeekDropStep ==
    /\ seek.valid
    /\ ~seek.fatal
    /\ seek' = NoSeek
    /\ UNCHANGED <<nodes, held, plast, bvars>>

PoolNext ==
    \/ CallerSplitStep
    \/ InsertStep
    \/ RemoveStep
    \/ SearchStep
    \/ SeekDropStep

\* The Block algebra on its own: the Pool stays empty.
Init ==
    /\ BlockInit
    /\ PoolInit

Spec == Init /\ [][BlockNext]_vars

\* The Pool under a front-end that frees, allocates, splits and searches.
PoolSpecInit ==
    /\ blocks = EmptyBag
    /\ initial = EmptyBag
    /\ last = NoOp
    /\ fatal = FALSE
    /\ PoolInit

PoolSpec == PoolSpecInit /\ [][PoolNext]_vars

\* ------------------------------------------------------ claims on Blocks
\* C1 (as stated): merge_right(a, b) succeeds if and only if a's right edge
\* is b's address or b is empty, and on success a grows by b's size and b is
\* left empty.
C1_MergeIffAdjacentOrEmpty ==
    last.op = "merge_right" =>
        /\ last.ok <=> (last.a.ptr + last.a.size = last.b.ptr \/ last.b.size = 0)
        /\ last.ok => /\ last.a2.size = last.a.size + last.b.size
                      /\ last.a2.ptr = last.a.ptr
                      /\ last.b2.size = 0

\* C5: merging the two halves of a split, in order, always succeeds and gives
\* back the address and size of the Block that was split, leaving the right
\* half empty; pos = 0 and pos = size included.
C5_SplitMergeRoundTrip ==
    (last.op = "merge_right" /\ last.rt) =>
        /\ last.ok
        /\ last.a2.ptr = last.orig.ptr
        /\ last.a2.size = last.orig.size
        /\ last.b2.size = 0
        /\ BagIn(last.orig, blocks)

\* A round trip at the boundary pos = size(b) of a non-empty Block.
C5_Witness ==
    /\ last.op = "merge_right" /\ last.rt
    /\ last.orig.size > 0 /\ last.b.size = 0 /\ last.a = last.orig

\* C6: align(b, a) fails exactly when the minimal padding
\* p = (a - address(b) mod a) mod a is >= size(b); otherwise pre starts at
\* b's address with size p, post is aligned, the two sizes add up to size(b),
\* and b is left empty at its address.
C6_Align ==
    last.op = "align" =>
        LET p == (last.arg - (last.a.ptr % last.arg)) % last.arg IN
        /\ ~last.ok <=> p >= last.a.size
        /\ last.ok =>
              /\ last.r1.ptr = last.a.ptr
              /\ last.r1.size = p
              /\ last.r2.ptr % last.arg = 0
              /\ last.r1.size + last.r2.size = last.a.size
              /\ last.a2 = [size |-> 0, ptr |-> last.a.ptr]
              /\ BagIn(last.r1, blocks) /\ BagIn(last.r2, blocks)
              /\ BagIn(last.a2, blocks)

\* An align that needed real padding and succeeded.
C6_Witness ==
    last.op = "align" /\ last.ok /\ last.r1.size > 0 /\ last.r2.size > 0

\* C7: split(pos) of a Block at A of size S returns (A size pos,
\* A+pos size S-pos), the first left_to the second, when pos <= S, and is
\* fatal, returning nothing, when pos > S.
C7_Split ==
    last.op = "split" =>
        IF last.arg <= last.a.size
        THEN /\ ~fatal /\ last.ok
             /\ last.r1 = [size |-> last.arg, ptr |-> last.a.ptr]
             /\ last.r2 = [size |-> last.a.size - last.arg,
                           ptr |-> last.a.ptr + last.arg]
             /\ last.r1.ptr + last.r1.size = last.r2.ptr
             /\ BagIn(last.r1, blocks) /\ BagIn(last.r2, blocks)
        ELSE /\ fatal /\ ~last.ok
             /\ last.r1 = empty(0) /\ last.r2 = empty(0)

\* A split one past the end of a non-empty Block: the panic.
C7_Witness ==
    last.op = "split" /\ last.a.size > 0 /\ last.arg = last.a.size + 1 /\ fatal

\* C8: a failed merge_right leaves both operands as they were, and a failed
\* align leaves the Block as it was.
C8_FailureFrame ==
    /\ (last.op = "merge_right" /\ ~last.ok) =>
          /\ last.a2 = last.a /\ last.b2 = last.b
          /\ BagIn(last.a, blocks) /\ BagIn(last.b, blocks)
    /\ (last.op = "align" /\ ~last.ok) =>
          /\ last.a2 = last.a
          /\ BagIn(last.a, blocks)

\* A merge_right that failed on two non-empty, non-adjacent Blocks.
C8_Witness ==
    last.op = "merge_right" /\ ~last.ok /\ last.a.size > 0 /\ last.b.size > 0

\* C10: as long as no panic happened, the non-empty Blocks never overlap and
\* own exactly the bytes the run started with; pop leaves an empty Block at
\* the same address and returns the previous value.
C10_Conservation ==
    /\ ~fatal => /\ NonOverlapping(blocks)
                 /\ SumSizes(blocks) = SumSizes(initial)
    /\ last.op = "pop" =>
          /\ last.a2 = [size |-> 0, ptr |-> last.a.ptr]
          /\ last.r1 = last.a
          /\ BagIn(last.a2, blocks) /\ BagIn(last.r1, blocks)

\* A pop of a non-empty Block after earlier operations made other Blocks.
C10_Witness ==
    /\ last.op = "pop" /\ last.a.size > 0
    /\ BagCardinality(blocks) = MaxBlocks
    /\ blocks # initial

\* ------------------------------------------------------ claims on the Pool
\* The Nodes of level lv in list order, the sentinel first.
LevelChain(lv) == Chain(nodes, HEAD, lv)

\* Reference scan: the last Node of chain c whose address is strictly below
\* address p, the sentinel when there is none.
LastBelow(c, p) ==
    LET I == {i \in 2..Len(c) : nodes[c[i]].block.ptr < p}
    IN  IF I = {} THEN HEAD
        ELSE c[CHOOSE i \in I : \A j \in I : j <= i]

\* C2: the base predecessor search returns is the Node a linear scan of the
\* base chain finds as the last one whose address is strictly less than the
\* target's.
C2_SearchMatchesLinearScan ==
    seek.valid =>
        /\ ~seek.fatal
        /\ seek.node = LastBelow(LevelChain(0), seek.target.ptr)

\* Three Nodes, a target between the second and the third, and a base
\* predecessor that is on no shortcut level.
C2_Witness ==
    /\ seek.valid
    /\ Len(LevelChain(0)) = 4
    /\ seek.node = LevelChain(0)[3]
    /\ nodes[seek.node].level = 0
    /\ nodes[seek.node].block.ptr + nodes[seek.node].block.size
           < seek.target.ptr

\* C3: when search returns, every level's back_look cell has been written
\* and holds the last Node of that level's chain whose address is strictly
\* less than the target's, the sentinel when there is none; on an empty Pool
\* or below every Block, search does not panic and every cell and the base
\* predecessor are the sentinel.
C3_BackLookPerLevel ==
    seek.valid =>
        /\ ~seek.fatal
        /\ \A l \in 1..MaxLevel :
              /\ l \in seek.set
              /\ seek.back_look[l] = LastBelow(LevelChain(l), seek.target.ptr)
        /\ (\A s \in ArenaSlots :
               nodes[s].used => seek.target.ptr < nodes[s].block.ptr) =>
              /\ \A l \in 1..MaxLevel : seek.back_look[l] = HEAD
              /\ seek.node = HEAD

\* A search whose top level stops at a Node and whose level 1 goes further.
C3_Witness ==
    /\ seek.valid
    /\ seek.back_look[MaxLevel] # HEAD
    /\ seek.back_look[1] # seek.back_look[MaxLevel]
    /\ seek.node # seek.back_look[1]

\* C4: after any inserts and removes the base chain holds only non-empty
\* Blocks, strictly increasing by address, none overlapping the next and none
\* adjacent to the next (so nothing is left to merge).
C4_SortedAndCoalesced ==
    LET c == LevelChain(0) IN
    /\ \A i \in 2..Len(c) : nodes[c[i]].used /\ nodes[c[i]].block.size > 0
    /\ \A i \in 2..(Len(c) - 1) :
          /\ nodes[c[i]].block.ptr < nodes[c[i + 1]].block.ptr
          /\ nodes[c[i]].block.ptr + nodes[c[i]].block.size
                 < nodes[c[i + 1]].block.ptr
    /\ \A s \in ArenaSlots : nodes[s].used => \E i \in 2..Len(c) : c[i] = s

\* Block@1 size 1 and then the adjacent Block@2 size 1 were inserted: one
\* Node, Block@1 size 2.
C4_Witness ==
    /\ plast.op = "insert" /\ plast.merged
    /\ Len(LevelChain(0)) = 2
    /\ nodes[LevelChain(0)[2]].block = [size |-> 2, ptr |-> 1]
    /\ \A b \in held : b.ptr > 2

\* C9 (as stated): from the highest level down the back_look entries are
\* strictly increasing by address, and each is strictly below the target.
C9_StrictlyIncreasing ==
    seek.valid =>
        /\ \A l1, l2 \in 1..MaxLevel :
              l1 > l2 => nodes[seek.back_look[l1]].block.ptr
                             < nodes[seek.back_look[l2]].block.ptr
        /\ \A l \in 1..MaxLevel :
              nodes[seek.back_look[l]].block.ptr < seek.target.ptr

\* C9 (amended): from the highest level down the back_look entries never
\* decrease by address, none lies above the base predecessor, and each is
\* strictly below the target.
C9_NonDecreasing ==
    seek.valid =>
        /\ \A l1, l2 \in 1..MaxLevel :
              l1 > l2 => nodes[seek.back_look[l1]].block.ptr
                             <= nodes[seek.back_look[l2]].block.ptr
        /\ \A l \in 1..MaxLevel :
              /\ nodes[seek.back_look[l]].block.ptr < seek.target.ptr
              /\ nodes[seek.back_look[l]].block.ptr
                     <= nodes[seek.node].block.ptr
        /\ nodes[seek.node].block.ptr < seek.target.ptr

\* Two levels record the same Node, which is not the sentinel.
C9_Witness ==
    /\ seek.valid
    /\ seek.back_look[MaxLevel] # HEAD
    /\ seek.back_look[1] = seek.back_look[MaxLevel]

\* Sanity: every level's chain is a subsequence of the base chain, and the
\* front-end and the Pool together own every managed byte exactly once.
PoolShape ==
    /\ \A l \in 1..MaxLevel :
          \A i \in 2..Len(LevelChain(l)) :
              /\ nodes[LevelChain(l)[i]].used
              /\ nodes[LevelChain(l)[i]].level >= l
    /\ \A s \in ArenaSlots : \A l \in 1..MaxLevel :
          (nodes[s].used /\ nodes[s].level >= l) =>
              \E i \in 2..Len(LevelChain(l)) : LevelChain(l)[i] = s
    /\ \A a \in 1..PoolMem :
          Cardinality({b \in held : b.ptr <= a /\ a < b.ptr + b.size})
          + Cardinality({s \in ArenaSlots : nodes[s].used
                            /\ nodes[s].block.ptr <= a
                            /\ a < nodes[s].block.ptr + nodes[s].block.size})
          = 1

====
